---- MODULE Spec2Model ----
(***************************************************************************)
(* Import pipeline of the import-export CLI: ImportAPI / ImportAPIProduct  *)
(* (impl/importAPI.go, impl/importAPIProduct.go).                          *)
(*                                                                         *)
(* Go strings that the code inspects character by character (name,        *)
(* version, context, contextTemplate) are sequences of one-character      *)
(* strings.  The nine characters of the literal {version} are carried as  *)
(* the single element VersionToken, so that strings.Contains and          *)
(* strings.ReplaceAll on that literal are sequence operations.            *)
(***************************************************************************)
EXTENDS Integers, Sequences, FiniteSets, TLC

VARIABLES
    kind,          \* "api" (ImportAPI) or "product" (ImportAPIProduct)
    pc,            \* position of the run
    result,        \* "" while running, afterwards "ok" or the error returned
    skipCleanup,   \* importAPISkipCleanup / importAPIProductSkipCleanup
    isDir,         \* the resolved artifact is a directory (else an archive)
    tmpDir,        \* the directory made by ioutil.TempDir in getTempApiDirectory
    ws,            \* tmpPath: the artifact root inside tmpDir
    zip,           \* the temporary api-artifact*.zip of the packaging step
    wsDeferred,    \* the deferred removal of tmpPath has been registered
    zipDeferred,   \* the deferred removal of the zip has been registered
    yaml,          \* <ws>/Meta-information/api.yaml: << >> or <<document>>
    json,          \* <ws>/Meta-information/api.json: << >> or <<document>>
    certFile,      \* <ws>/Meta-information/endpoint_certificates.yaml exists
    env,           \* the override parameters of the target environment
    api,           \* the gabs container held by mergeAPI / the security handler
    before,        \* the value the operation under study was applied to
    yamlAtInject,  \* api.yaml as it was when injectParamsToAPI was called
    writers,       \* the stages that have written api.yaml in this run
    mergeStep,     \* the last step mergeAPI reached
    info,          \* the typed definition (v2.APIDefinition / APIProductDefinition)
    dirty,         \* what populate...WithDefaults returned
    verdict,       \* number of the validation rule reported, 0 for none
    update,        \* importAPIUpdate / (importAPIsUpdate or importAPIProductUpdate)
    overwrite,     \* updateAPI / updateAPIProduct
    queries,       \* catalog existence queries issued
    uploads,       \* upload requests issued
    fsIn,          \* what os.Stat, os.Getwd and filepath.Abs find for the paths looked up
    pathOut,       \* the path and the error a path resolver returned
    flags,         \* the update / import-apis / preserve-provider flags of the command
    matches,       \* entities the catalog lookup returned, -1 when none was made
    request,       \* query parameters of the import URL, << >> before it is built
    status,        \* HTTP status of the import response, 0 when there is none
    query,         \* the fields the catalog lookup filtered on, {} when none was made
    matched,       \* provider of the first entity the lookup was answered with, "" when none
    endpoint,      \* method, path and payload of the import request, << >> before it is built
    touched,       \* the locations the run has created or written files under
    appId          \* the application id getAppId returned, "" when none

vars == <<kind, pc, result, skipCleanup, isDir, tmpDir, ws, zip, wsDeferred,
          zipDeferred, yaml, json, certFile, env, api, before, yamlAtInject,
          writers, mergeStep, info, dirty, verdict, update, overwrite, queries,
          uploads, fsIn, pathOut, flags, matches, request, status, query,
          matched, endpoint, touched, appId>>

-----------------------------------------------------------------------------
(* Bounds of the string inputs.                                            *)
MaxNameLen == 1
MaxContextLen == 3

VersionToken == "{version}"

Strs(A, n) == UNION {[1..k -> A] : k \in 0..n}

NameChars == {"a", " ", "$"}
ContextChars == {"/", "a", ".", VersionToken}

\* the inputs of the defaults and of the validator
Names == Strs(NameChars, MaxNameLen)
Versions == {<< >>, <<"1">>, <<" ">>}
Contexts == Strs(ContextChars, MaxContextLen) \cup {<<" ">>}
Templates == {<< >>, <<"/">>, <<" ">>, <<"a">>}

-----------------------------------------------------------------------------
(* Go string functions used by the defaults and the validator.             *)

\* unicode white space as far as the alphabets above contain it
IsSpace(c) == c = " "

RECURSIVE TrimLeft(_)
TrimLeft(s) ==
    IF s # << >> /\ IsSpace(Head(s)) THEN TrimLeft(Tail(s)) ELSE s

RECURSIVE TrimRight(_)
TrimRight(s) ==
    IF s # << >> /\ IsSpace(s[Len(s)]) THEN TrimRight(SubSeq(s, 1, Len(s) - 1)) ELSE s

\* strings.TrimSpace
TrimSpace(s) == TrimRight(TrimLeft(s))

\* isEmpty returns true when a given string is empty
isEmpty(s) == Len(TrimSpace(s)) = 0

\* strings.HasPrefix(s, "/")
HasSlashPrefix(s) == Len(s) > 0 /\ s[1] = "/"

\* strings.Contains(s, "{version}")
ContainsVersion(s) == \E i \in 1..Len(s) : s[i] = VersionToken

\* strings.ReplaceAll(s, "{version}", v)
RECURSIVE ReplaceVersion(_, _)
ReplaceVersion(s, v) ==
    IF s = << >> THEN << >>
    ELSE (IF Head(s) = VersionToken THEN v ELSE <<Head(s)>>) \o ReplaceVersion(Tail(s), v)

\* the elements of a path between its separators
RECURSIVE SplitPath(_, _)
SplitPath(s, cur) ==
    IF s = << >> THEN <<cur>>
    ELSE IF Head(s) = "/" THEN <<cur>> \o SplitPath(Tail(s), << >>)
    ELSE SplitPath(Tail(s), Append(cur, Head(s)))

\* path.Clean's treatment of one element: drop empty and ".", resolve ".."
CleanStep(stack, e, rooted) ==
    IF e = << >> \/ e = <<".">> THEN stack
    ELSE IF e = <<".", ".">>
         THEN IF Len(stack) > 0 /\ stack[Len(stack)] # <<".", ".">>
              THEN SubSeq(stack, 1, Len(stack) - 1)
              ELSE IF rooted THEN stack ELSE Append(stack, e)
         ELSE Append(stack, e)

RECURSIVE CleanFold(_, _, _)
CleanFold(stack, elems, rooted) ==
    IF elems = << >> THEN stack
    ELSE CleanFold(CleanStep(stack, Head(elems), rooted), Tail(elems), rooted)

RECURSIVE JoinPath(_)
JoinPath(elems) ==
    IF elems = << >> THEN << >>
    ELSE IF Len(elems) = 1 THEN elems[1]
    ELSE elems[1] \o <<"/">> \o JoinPath(Tail(elems))

\* path.Clean
pathClean(s) ==
    IF s = << >> THEN <<".">>
    ELSE LET rooted == s[1] = "/"
             body == JoinPath(CleanFold(<< >>, SplitPath(s, << >>), rooted))
         IN IF rooted THEN <<"/">> \o body
            ELSE IF body = << >> THEN <<".">> ELSE body

\* the characters reApiName / reApiProductName match
ForbiddenChars ==
    {"~", "!", "@", "#", ";", ":", "%", "^", "*", "(", ")", "+", "=", "{", "}",
     "|", "\\", "<", ">", "\"", "'", ",", "&", "/", "$"}

\* reApiName.MatchString(name); the {version} literal holds '{' and '}'
MatchesForbidden(name) ==
    \E i \in 1..Len(name) : name[i] \in ForbiddenChars \/ name[i] = VersionToken

-----------------------------------------------------------------------------
(* The typed definition: v2.APIDefinition / v2.APIProductDefinition, the   *)
(* fields the pipeline reads.  A slice is Nil or Some(list), which tells a  *)
(* nil slice from an empty one.                                            *)

Nil == << >>
Some(x) == <<x>>

TypedDef(name, version, context, template, tags, uriTemplates, impl) ==
    [apiName |-> name, version |-> version, context |-> context,
     contextTemplate |-> template, tags |-> tags,
     uriTemplates |-> uriTemplates, implementation |-> impl]

\* a context-template default that fills the template and leaves the context
\* as it was given
DefaultContext_KeepContext(def) ==
    IF def.contextTemplate # << >> THEN def
    ELSE IF ~ContainsVersion(def.context)
         THEN [def EXCEPT !.contextTemplate =
                             pathClean(def.context \o <<"/", VersionToken>>)]
         ELSE [def EXCEPT !.contextTemplate = pathClean(def.context)]

\* a context-template default that cleans the context before the placeholder is
\* appended instead of after
DefaultContext_CleanThenAppend(def) ==
    IF def.contextTemplate # << >> THEN def
    ELSE IF ~ContainsVersion(def.context)
         THEN LET t == pathClean(def.context) \o <<"/", VersionToken>>
              IN [def EXCEPT !.contextTemplate = t,
                             !.context = ReplaceVersion(t, def.version)]
         ELSE LET c == pathClean(def.context)
              IN [def EXCEPT !.contextTemplate = c,
                             !.context = ReplaceVersion(c, def.version)]

\* the context-template default common to both populate functions
DefaultContext(def) ==
    IF def.contextTemplate # << >> THEN def
    ELSE IF ~ContainsVersion(def.context)
         THEN LET t == pathClean(def.context \o <<"/", VersionToken>>)
              IN [def EXCEPT !.contextTemplate = t,
                             !.context = ReplaceVersion(t, def.version)]
         ELSE LET c == pathClean(def.context)
              IN [def EXCEPT !.contextTemplate = c,
                             !.context = ReplaceVersion(c, def.version)]

\* the defaults without the context-template default
populateApiWithDefaults_NoContext(def) ==
    [def |-> [def EXCEPT !.tags = IF @ = Nil THEN Some(<< >>) ELSE @,
                         !.uriTemplates = IF @ = Nil THEN Some(<< >>) ELSE @,
                         !.implementation = IF @ = "" THEN "ENDPOINT" ELSE @],
     dirty |-> def.tags = Nil \/ def.uriTemplates = Nil \/ def.implementation = ""]

\* populateApiWithDefaults: the definition it leaves and the dirty flag it returns
populateApiWithDefaults(def) ==
    LET d1 == DefaultContext(def)
    IN [def |-> [d1 EXCEPT !.tags = IF @ = Nil THEN Some(<< >>) ELSE @,
                           !.uriTemplates = IF @ = Nil THEN Some(<< >>) ELSE @,
                           !.implementation = IF @ = "" THEN "ENDPOINT" ELSE @],
        dirty |-> \/ def.contextTemplate = << >>
                  \/ def.tags = Nil
                  \/ def.uriTemplates = Nil
                  \/ def.implementation = ""]

\* product defaults that report a change on every application
populateApiProductWithDefaults_AlwaysDirty(def) ==
    LET d1 == DefaultContext(def)
    IN [def |-> [d1 EXCEPT !.tags = IF @ = Nil THEN Some(<< >>) ELSE @],
        dirty |-> TRUE]

\* populateApiProductWithDefaults
populateApiProductWithDefaults(def) ==
    LET d1 == DefaultContext(def)
    IN [def |-> [d1 EXCEPT !.tags = IF @ = Nil THEN Some(<< >>) ELSE @],
        dirty |-> def.contextTemplate = << >> \/ def.tags = Nil]

populateWithDefaults(k, def) ==
    IF k = "api" THEN populateApiWithDefaults(def)
    ELSE populateApiProductWithDefaults(def)

\* a validator that tests the context before the name's characters
validateApiDefinition_ContextFirst(def) ==
    IF isEmpty(def.apiName) THEN 1
    ELSE IF isEmpty(def.context) THEN 4
    ELSE IF MatchesForbidden(def.apiName) THEN 2
    ELSE IF isEmpty(def.version) THEN 3
    ELSE IF isEmpty(def.contextTemplate) THEN 5
    ELSE IF ~HasSlashPrefix(def.context) THEN 6
    ELSE IF ~HasSlashPrefix(def.contextTemplate) THEN 7
    ELSE 0

\* validateApiDefinition: the number of the rule whose error is returned,
\* 0 when nil is returned
validateApiDefinition(def) ==
    IF isEmpty(def.apiName) THEN 1
    ELSE IF MatchesForbidden(def.apiName) THEN 2
    ELSE IF isEmpty(def.version) THEN 3
    ELSE IF isEmpty(def.context) THEN 4
    ELSE IF isEmpty(def.contextTemplate) THEN 5
    ELSE IF ~HasSlashPrefix(def.context) THEN 6
    ELSE IF ~HasSlashPrefix(def.contextTemplate) THEN 7
    ELSE 0

\* validateApiProductDefinition (apiName holds ID.APIProductName)
validateApiProductDefinition(def) ==
    IF isEmpty(def.apiName) THEN 1
    ELSE IF MatchesForbidden(def.apiName) THEN 2
    ELSE IF isEmpty(def.version) THEN 3
    ELSE IF isEmpty(def.context) THEN 4
    ELSE IF isEmpty(def.contextTemplate) THEN 5
    ELSE IF ~HasSlashPrefix(def.context) THEN 6
    ELSE IF ~HasSlashPrefix(def.contextTemplate) THEN 7
    ELSE 0

validateDefinition(k, def) ==
    IF k = "api" THEN validateApiDefinition(def)
    ELSE validateApiProductDefinition(def)

ValidationError(rule) ==
    CASE rule = 1 -> "name is required"
      [] rule = 2 -> "name contains one or more illegal characters"
      [] rule = 3 -> "version is required"
      [] rule = 4 -> "context is required"
      [] rule = 5 -> "contextTemplate is required"
      [] rule = 6 -> "context should begin with a /"
      [] rule = 7 -> "contextTemplate should begin with a /"

-----------------------------------------------------------------------------
(* The generic document (gabs.Container): a function from the keys that    *)
(* are present to their values.                                            *)

Has(doc, k) == k \in DOMAIN doc

\* Container.SetP(value, key)
SetP(doc, k, v) == [x \in DOMAIN doc \cup {k} |-> IF x = k THEN v ELSE doc[x]]

\* Container.Delete(key)
Delete(doc, k) == [x \in DOMAIN doc \ {k} |-> doc[x]]

SetOpt(doc, k, opt) == IF opt = Nil THEN doc ELSE SetP(doc, k, opt[1])

\* strconv.ParseBool: "true", "false" or "error"
ParseBool(s) ==
    IF s \in {"1", "t", "T", "TRUE", "true", "True"} THEN "true"
    ELSE IF s \in {"0", "f", "F", "FALSE", "false", "False"} THEN "false"
    ELSE "error"

ErrUsername == "You have enabled endpoint security but the username is not found"
ErrPassword == "You have enabled endpoint security but the password is not found"
ErrType == "You have enabled endpoint security but the type is not found"
ErrSecurityType == "Invalid endpoint security type found"
ErrParseBool == "strconv.ParseBool: invalid syntax"

\* setEndpointSecurityType that takes every type other than digest for basic
setEndpointSecurityType_AnyBasic(sec, c) ==
    [api |-> SetP(c, "endpointAuthDigest", sec.type = "digest"), err |-> ""]

\* setEndpointSecurityType: the container it leaves and the error it returns
setEndpointSecurityType(sec, c) ==
    IF sec.type = "digest" THEN [api |-> SetP(c, "endpointAuthDigest", TRUE), err |-> ""]
    ELSE IF sec.type = "basic" THEN [api |-> SetP(c, "endpointAuthDigest", FALSE), err |-> ""]
    ELSE [api |-> c, err |-> ErrSecurityType]

\* setSecurityEndpointsParams
setSecurityEndpointsParams(sec, c) ==
    IF sec.username = "" THEN [api |-> c, err |-> ErrUsername]
    ELSE IF sec.password = "" THEN [api |-> c, err |-> ErrPassword]
    ELSE IF sec.type = "" THEN [api |-> c, err |-> ErrType]
    ELSE setEndpointSecurityType(sec,
             SetP(SetP(c, "endpointUTUsername", sec.username),
                  "endpointUTPassword", sec.password))

\* handleSecurityEndpointsParams that tests the parsed flag, not its presence
handleSecurityEndpointsParams_ZeroValue(sec, c) ==
    IF sec.set /\ ParseBool(sec.enabled) = "true"
    THEN setSecurityEndpointsParams(sec, SetP(c, "endpointSecured", TRUE))
    ELSE [api |-> SetP(SetP(SetP(c, "endpointSecured", FALSE),
                            "endpointUTUsername", ""), "endpointUTPassword", ""),
          err |-> ""]

\* handleSecurityEndpointsParams
handleSecurityEndpointsParams(sec, c) ==
    IF sec.set /\ sec.enabled # ""
    THEN LET b == ParseBool(sec.enabled)
         IN IF b = "error" THEN [api |-> c, err |-> ErrParseBool]
            ELSE IF b = "true"
                 THEN setSecurityEndpointsParams(sec, SetP(c, "endpointSecured", TRUE))
                 ELSE [api |-> SetP(SetP(SetP(c, "endpointSecured", FALSE),
                                         "endpointUTUsername", ""),
                                    "endpointUTPassword", ""),
                       err |-> ""]
    ELSE [api |-> c, err |-> ""]

-----------------------------------------------------------------------------
(* Override parameters of one environment (params.Environment).            *)

NoSecurity ==
    [set |-> FALSE, enabled |-> "", username |-> "", password |-> "", type |-> ""]

NoEnv ==
    [found |-> FALSE, endpoints |-> << >>, gateway |-> << >>,
     security |-> NoSecurity, certs |-> << >>]

NoDef == TypedDef(<< >>, << >>, << >>, << >>, Nil, Nil, "")

\* no run of the pipeline is in progress: nothing of it exists
NoPath == [path |-> "", err |-> ""]
NoFlags == [update |-> FALSE, importAPIs |-> FALSE, importAPIsUpdate |-> FALSE,
            preserveProvider |-> FALSE]

\* nothing is sent: no lookup made, no URL built, no response
NoRemote ==
    /\ update = FALSE /\ overwrite = FALSE /\ queries = 0 /\ uploads = 0
    /\ flags = NoFlags /\ matches = -1 /\ request = << >> /\ status = 0
    /\ query = {} /\ matched = "" /\ endpoint = << >> /\ appId = ""

NoRun ==
    /\ skipCleanup = FALSE /\ isDir = TRUE
    /\ tmpDir = "none" /\ ws = "none" /\ zip = "none"
    /\ wsDeferred = FALSE /\ zipDeferred = FALSE
    /\ yaml = << >> /\ json = << >> /\ certFile = FALSE
    /\ yamlAtInject = << >> /\ writers = {} /\ mergeStep = "none"
    /\ fsIn = << >> /\ pathOut = NoPath
    /\ touched = {}
    /\ NoRemote

runVars == <<skipCleanup, isDir, tmpDir, ws, zip, wsDeferred, zipDeferred, yaml,
             json, certFile, yamlAtInject, writers, mergeStep, update, overwrite,
             queries, uploads, fsIn, pathOut, flags, matches, request, status,
             query, matched, endpoint, touched, appId>>

-----------------------------------------------------------------------------
(* SpecDefaults: the defaults and the validator applied to every typed     *)
(* definition of the bounded input sets.                                   *)

DefaultsInputs ==
    {TypedDef(n, v, c, t, r[1], r[2], r[3]) :
        n \in Names, v \in Versions, c \in Contexts, t \in Templates,
        r \in {<<Nil, Nil, "">>,
                <<Some(<<"tag">>), Some(<< >>), "ENDPOINT">>,
                <<Nil, Some(<< >>), "ENDPOINT">>}}

InitDefaults ==
    /\ kind \in {"api", "product"}
    /\ pc = "input"
    /\ result = ""
    /\ info \in DefaultsInputs
    /\ dirty = FALSE
    /\ verdict = 0
    /\ env = NoEnv
    /\ api = << >>
    /\ before = info
    /\ NoRun

\* populateApiWithDefaults(apiInfo) / populateApiProductWithDefaults(apiProductInfo)
ApplyDefaults ==
    /\ pc = "input"
    /\ LET r == populateWithDefaults(kind, info)
       IN /\ info' = r.def
          /\ dirty' = r.dirty
    /\ pc' = "populated"
    /\ UNCHANGED <<kind, result, verdict, env, api, before, runVars>>

\* validateApiDefinition / validateApiProductDefinition on the definition as
\* given ("checked") or as the defaults left it ("validated")
ApplyValidation ==
    /\ pc \in {"input", "populated"}
    /\ verdict' = validateDefinition(kind, info)
    /\ result' = IF verdict' = 0 THEN "ok" ELSE ValidationError(verdict')
    /\ pc' = IF pc = "input" THEN "checked" ELSE "validated"
    /\ UNCHANGED <<kind, info, dirty, env, api, before, runVars>>

\* the same populate function applied to the definition it has already
\* defaulted; "before" keeps the definition this second application was given
ApplyDefaultsAgain ==
    /\ pc = "populated"
    /\ before' = info
    /\ LET r == populateWithDefaults(kind, info)
       IN /\ info' = r.def
          /\ dirty' = r.dirty
    /\ pc' = "repopulated"
    /\ UNCHANGED <<kind, result, verdict, env, api, runVars>>

NextDefaults == ApplyDefaults \/ ApplyValidation \/ ApplyDefaultsAgain

SpecDefaults == InitDefaults /\ [][NextDefaults]_vars

-----------------------------------------------------------------------------
(* Statements about the validator and the defaults.                        *)

\* the validation rules as the specification words them
Violates(rule, def) ==
    CASE rule = 1 -> def.apiName = << >>
      [] rule = 2 -> \E i \in 1..Len(def.apiName) :
                        def.apiName[i] \in ForbiddenChars \cup {VersionToken}
      [] rule = 3 -> def.version = << >>
      [] rule = 4 -> def.context = << >>
      [] rule = 5 -> def.contextTemplate = << >>
      [] rule = 6 -> def.context = << >> \/ def.context[1] # "/"
      [] rule = 7 -> def.contextTemplate = << >> \/ def.contextTemplate[1] # "/"

\* a string of white space only (the empty string included)
Blank(s) == \A i \in 1..Len(s) : s[i] = " "

\* the rules with "non-empty" read as "not blank"
ViolatesBlank(rule, def) ==
    CASE rule = 1 -> Blank(def.apiName)
      [] rule = 3 -> Blank(def.version)
      [] rule = 4 -> Blank(def.context)
      [] rule = 5 -> Blank(def.contextTemplate)
      [] OTHER -> Violates(rule, def)

Lowest(S) == IF S = {} THEN 0 ELSE CHOOSE r \in S : \A q \in S : r <= q

Validated == pc \in {"checked", "validated"}

\* C9 as stated: the validator reports exactly the lowest-numbered violated
\* rule of (1 name non-empty, 2 no forbidden character, 3 version non-empty,
\* 4 context non-empty, 5 context-template non-empty, 6 context starts with
\* '/', 7 context-template starts with '/'), and 0 iff none is violated.
C9_AsStated ==
    Validated => verdict = Lowest({r \in 1..7 : Violates(r, info)})

\* C9 amended: the same with rules 1, 3, 4 and 5 reading "not blank" (not
\* empty after white space is trimmed): the validator reports exactly the
\* lowest-numbered violated rule and succeeds iff no rule is violated.
C9_FailFastOrder ==
    Validated => verdict = Lowest({r \in 1..7 : ViolatesBlank(r, info)})

\* a definition violating rules 2 and 4 at once was validated and rule 2 reported
C9_Witness ==
    /\ Validated
    /\ ViolatesBlank(2, info) /\ ViolatesBlank(4, info) /\ ~ViolatesBlank(1, info)
    /\ verdict = 2

WellFormed(def) ==
    /\ def.apiName # << >> /\ def.version # << >>
    /\ def.context # << >> /\ def.contextTemplate # << >>
    /\ def.context[1] = "/" /\ def.contextTemplate[1] = "/"
    /\ \A i \in 1..Len(def.apiName) :
          def.apiName[i] \notin ForbiddenChars \cup {VersionToken}

\* C10 as stated: after the Defaults stage the definition always has non-empty
\* name, version, context and context-template, context and context-template
\* begin with '/', and the name has no forbidden character.
C10_AsStated ==
    pc = "populated" => WellFormed(info)

\* C10 amended: after the Defaults stage the context-template is never empty,
\* and a definition that the validator then accepts has non-blank name,
\* version, context and context-template, context and context-template that
\* begin with '/', and a name with no forbidden character.
C10_AfterDefaults ==
    /\ pc \in {"populated", "validated"} => info.contextTemplate # << >>
    /\ (pc = "validated" /\ verdict = 0) =>
          /\ WellFormed(info)
          /\ ~Blank(info.apiName) /\ ~Blank(info.version)
          /\ ~Blank(info.context) /\ ~Blank(info.contextTemplate)

\* the defaults filled the context-template and the validator accepted the result
C10_Witness ==
    /\ pc = "validated" /\ verdict = 0 /\ dirty
    /\ ContainsVersion(info.contextTemplate)

\* C11: the context-template default is applied only when the template is
\* unset: a context that contains {version} gives template = the path-cleaned
\* context; any other context gives template = the path-cleaned
\* "context/{version}"; in both cases the final context is the template with
\* {version} replaced by the version. A definition whose template is set keeps
\* its context and its template.
C11_ContextTemplateDefault ==
    pc = "populated" =>
       IF before.contextTemplate # << >>
       THEN /\ info.context = before.context
            /\ info.contextTemplate = before.contextTemplate
       ELSE /\ info.contextTemplate =
                 IF ContainsVersion(before.context)
                 THEN pathClean(before.context)
                 ELSE pathClean(before.context \o <<"/", VersionToken>>)
            /\ info.context = ReplaceVersion(info.contextTemplate, before.version)

\* a context without the placeholder and with a trailing slash was defaulted:
\* the template is the cleaned "context/{version}" and the context carries the
\* version
C11_Witness ==
    /\ pc = "populated"
    /\ before.contextTemplate = << >>
    /\ before.context = <<"/", "a", "/">>
    /\ before.version = <<"1">>
    /\ info.contextTemplate = <<"/", "a", "/", VersionToken>>
    /\ info.context = <<"/", "a", "/", "1">>

\* C13: the defaults are idempotent: a second application to the definition
\* the first one left changes no field and reports not dirty.
C13_DefaultsIdempotent ==
    pc = "repopulated" => info = before /\ ~dirty

\* the second application was given a product definition whose template and
\* tags the first application had filled
C13_Witness ==
    /\ pc = "repopulated" /\ kind = "product"
    /\ ContainsVersion(before.contextTemplate)
    /\ before.tags = Some(<< >>)
    /\ info = before /\ ~dirty

-----------------------------------------------------------------------------
(* SpecSecurity: handleSecurityEndpointsParams applied to every pair of a  *)
(* security override and a definition's security settings.                 *)

SecurityOverrides ==
    {NoSecurity} \cup
    [set : {TRUE},
     enabled : {"", "true", "True", "false", "0", "yes"},
     username : {"", "admin"},
     password : {"", "secret"},
     type : {"", "basic", "digest", "Digest"}]

SecurityKeys ==
    {"endpointSecured", "endpointUTUsername", "endpointUTPassword", "endpointAuthDigest"}

\* definitions with each security setting absent or at one of its values
SecurityDocs ==
    {SetOpt(SetOpt(SetOpt(SetOpt([k \in {"x-custom"} |-> "kept"],
        "endpointSecured", s), "endpointUTUsername", u), "endpointUTPassword", u),
        "endpointAuthDigest", d) :
        s \in {Nil, Some(TRUE), Some(FALSE)},
        u \in {Nil, Some(""), Some("old")},
        d \in {Nil, Some(TRUE), Some(FALSE)}}

InitSecurity ==
    /\ kind = "api"
    /\ pc = "security"
    /\ result = ""
    /\ env \in {[NoEnv EXCEPT !.found = TRUE, !.security = s] : s \in SecurityOverrides}
    /\ api \in SecurityDocs
    /\ before = api
    /\ info = NoDef /\ dirty = FALSE /\ verdict = 0
    /\ NoRun

\* err = handleSecurityEndpointsParams(environmentParams.Security, api)
ApplySecurity ==
    /\ pc = "security"
    /\ LET r == handleSecurityEndpointsParams(env.security, api)
       IN /\ api' = r.api
          /\ result' = IF r.err = "" THEN "ok" ELSE r.err
    /\ pc' = "handled"
    /\ UNCHANGED <<kind, env, before, info, dirty, verdict, runVars>>

NextSecurity == ApplySecurity

SpecSecurity == InitSecurity /\ [][NextSecurity]_vars

\* the value of a key, or Nil when the key is absent
Opt(doc, k) == IF Has(doc, k) THEN Some(doc[k]) ELSE Nil

\* C7: when the security override is absent or its enabled field is unset,
\* handleSecurityEndpointsParams leaves endpointSecured, endpointUTUsername,
\* endpointUTPassword and endpointAuthDigest unchanged; when enabled is set to
\* false, endpointSecured becomes false and username and password become
\* empty whatever they were.
C7_PresenceSemantics ==
    pc = "handled" =>
        /\ (~env.security.set \/ env.security.enabled = "") =>
              /\ result = "ok"
              /\ \A k \in SecurityKeys : Opt(api, k) = Opt(before, k)
        /\ (env.security.set /\ env.security.enabled \in {"false", "0"}) =>
              /\ result = "ok"
              /\ Opt(api, "endpointSecured") = Some(FALSE)
              /\ Opt(api, "endpointUTUsername") = Some("")
              /\ Opt(api, "endpointUTPassword") = Some("")

\* an override with enabled=false met stored credentials and cleared them
C7_Witness ==
    /\ pc = "handled"
    /\ env.security.set /\ env.security.enabled = "false"
    /\ Opt(before, "endpointSecured") = Some(TRUE)
    /\ Opt(before, "endpointUTUsername") = Some("old")
    /\ Opt(api, "endpointUTUsername") = Some("")

\* an override with enabled unset met a definition with security enabled and
\* credentials set
C7_WitnessUnset ==
    /\ pc = "handled"
    /\ env.security.set /\ env.security.enabled = ""
    /\ env.security.username = "admin"
    /\ Opt(before, "endpointSecured") = Some(TRUE)
    /\ Opt(api, "endpointUTUsername") = Some("old")

-----------------------------------------------------------------------------
(* The path resolvers: the artifact locator and the override-file          *)
(* discovery, as functions of what the file system answers.                *)

\* what os.Stat reports for the artifact path: the path exists, it does not
\* exist (ENOENT), or a component of its prefix is not a directory (ENOTDIR:
\* the path does not exist either, and os.IsNotExist is false for this error)
StatOutcomes == {"exists", "ENOENT", "ENOTDIR"}

\* a path by where it points and whether it is absolute
LocatorInputs ==
    [given : StatOutcomes,         \* os.Stat(file)
     joined : StatOutcomes,        \* os.Stat(filepath.Join(exportDir, file))
     givenAbs : BOOLEAN,           \* the given path is absolute
     exportAbs : BOOLEAN,          \* the default export directory is absolute
     getwd : BOOLEAN]              \* os.Getwd succeeds

\* filepath.Abs: an absolute path is returned as it is, a relative one is
\* joined to the working directory, which must be obtainable
filepathAbs(loc, isAbs, getwd) ==
    IF isAbs \/ getwd THEN [path |-> loc, absolute |-> TRUE, err |-> ""]
    ELSE [path |-> "", absolute |-> FALSE, err |-> "Getwd failed"]

\* resolveImportFilePath / resolveImportAPIProductFilePath
resolveImportFilePath(f) ==
    IF f.given = "ENOENT"
    THEN IF f.joined = "ENOENT"
         THEN [path |-> "", absolute |-> FALSE, err |-> "not found"]
         ELSE filepathAbs("joined", f.exportAbs, f.getwd)
    ELSE filepathAbs("given", f.givenAbs, f.getwd)

\* what os.Stat finds at a candidate location of the override file
FileKinds == {"missing", "file", "dir"}

\* the candidate locations of the default name, in the order they are tried
ParamLocations == <<"root", "parent", "cwd">>

\* paramPath is the default name ("default"), the empty string ("empty") or
\* any other path ("explicit"). The import root holds entries only when it is
\* a directory, the working directory only when it can be obtained, and no
\* file has the empty path.
ParamInputs ==
    {f \in [requested : {"default", "empty", "explicit"},
            rootIsDir : BOOLEAN,
            root : FileKinds, parent : FileKinds, cwd : FileKinds,
            getwd : BOOLEAN,
            explicit : FileKinds] :
        /\ ~f.rootIsDir => f.root = "missing"
        /\ ~f.getwd => f.cwd = "missing"
        /\ f.requested # "explicit" => f.explicit = "missing"}

\* a discovery that tries the parent directory before the import root
resolveAPIParamsPath_ParentFirst(f) ==
    IF f.requested = "default"
    THEN IF f.parent = "file" THEN [path |-> "parent", err |-> ""]
         ELSE IF f.rootIsDir /\ f.root = "file" THEN [path |-> "root", err |-> ""]
         ELSE IF ~f.getwd THEN [path |-> "", err |-> "Getwd failed"]
         ELSE IF f.cwd = "file" THEN [path |-> "cwd", err |-> ""]
         ELSE [path |-> "", err |-> "could not find the parameters file"]
    ELSE IF f.explicit = "file" THEN [path |-> "explicit", err |-> ""]
         ELSE [path |-> "", err |-> "could not find the parameters file"]

\* resolveAPIParamsPath(importPath, paramPath)
resolveAPIParamsPath(f) ==
    IF f.requested = "default"
    THEN IF f.rootIsDir /\ f.root = "file" THEN [path |-> "root", err |-> ""]
         ELSE IF f.parent = "file" THEN [path |-> "parent", err |-> ""]
         ELSE IF ~f.getwd THEN [path |-> "", err |-> "Getwd failed"]
         ELSE IF f.cwd = "file" THEN [path |-> "cwd", err |-> ""]
         ELSE [path |-> "", err |-> "could not find the parameters file"]
    ELSE IF f.explicit = "file" THEN [path |-> "explicit", err |-> ""]
         ELSE [path |-> "", err |-> "could not find the parameters file"]

(* SpecPaths: each resolver applied to every answer of the file system.    *)

InitPaths ==
    /\ kind \in {"api", "product"}
    /\ \/ pc = "locate" /\ fsIn \in LocatorInputs
       \/ pc = "scan" /\ kind = "api" /\ fsIn \in ParamInputs
    /\ pathOut = NoPath
    /\ result = ""
    /\ info = NoDef /\ dirty = FALSE /\ verdict = 0
    /\ env = NoEnv /\ api = << >> /\ before = << >>
    /\ skipCleanup = FALSE /\ isDir = TRUE
    /\ tmpDir = "none" /\ ws = "none" /\ zip = "none"
    /\ wsDeferred = FALSE /\ zipDeferred = FALSE
    /\ yaml = << >> /\ json = << >> /\ certFile = FALSE
    /\ yamlAtInject = << >> /\ writers = {} /\ mergeStep = "none"
    /\ touched = {}
    /\ NoRemote

pathsFixed == <<kind, result, info, dirty, verdict, env, api, before, skipCleanup,
                isDir, tmpDir, ws, zip, wsDeferred, zipDeferred, yaml, json,
                certFile, yamlAtInject, writers, mergeStep, update, overwrite,
                queries, uploads, flags, matches, request, status, query,
                matched, endpoint, touched, appId>>

\* resolveImportFilePath(importPath, exportDirectory): only os.Stat is called,
\* the file system is left as it was
ApplyLocator ==
    /\ pc = "locate"
    /\ pathOut' = resolveImportFilePath(fsIn)
    /\ pc' = "located"
    /\ UNCHANGED <<fsIn, pathsFixed>>

\* resolveAPIParamsPath(resolvedApiFilePath, apiParamsPath)
ApplyParamsPath ==
    /\ pc = "scan"
    /\ pathOut' = resolveAPIParamsPath(fsIn)
    /\ pc' = "scanned"
    /\ UNCHANGED <<fsIn, pathsFixed>>

NextPaths == ApplyLocator \/ ApplyParamsPath

SpecPaths == InitPaths /\ [][NextPaths]_vars

\* C17: with the default name the discovery returns the first location, in
\* the order import root (a directory), parent directory of the import root,
\* working directory, at which api_params.yaml exists as a regular file; an
\* earlier location wins over a later one, a directory of that name is never
\* selected, and nothing is returned only when no location has the file.
C17_FirstRegularFile ==
    (pc = "scanned" /\ fsIn.requested = "default") =>
        LET hit == {i \in 1..3 : fsIn[ParamLocations[i]] = "file"}
        IN IF hit = {}
           THEN pathOut.path = "" /\ pathOut.err # ""
           ELSE /\ pathOut.err = ""
                /\ \E i \in hit : /\ pathOut.path = ParamLocations[i]
                                  /\ \A j \in hit : i <= j

\* the import root holds a directory named api_params.yaml, its parent and the
\* working directory both hold the file: the parent's file is returned
C17_Witness ==
    /\ pc = "scanned" /\ fsIn.requested = "default"
    /\ fsIn.rootIsDir /\ fsIn.root = "dir"
    /\ fsIn.parent = "file" /\ fsIn.cwd = "file"
    /\ pathOut.path = "parent"

\* C19 as stated: the locator returns the absolute form of the given path when
\* it exists, otherwise the absolute form of the path joined under the default
\* export directory when that exists, otherwise it fails with not-found; a
\* successful result is absolute. (The working directory is obtainable.)
C19_LocatorContract ==
    (pc = "located" /\ fsIn.getwd) =>
        IF fsIn.given = "exists"
        THEN pathOut = [path |-> "given", absolute |-> TRUE, err |-> ""]
        ELSE IF fsIn.joined = "exists"
        THEN pathOut = [path |-> "joined", absolute |-> TRUE, err |-> ""]
        ELSE pathOut.path = "" /\ pathOut.err = "not found"

-----------------------------------------------------------------------------
(* The pipeline: one run of ImportAPI or ImportAPIProduct.                 *)

\* the keys of an endpoint configuration whose values are objects
ObjectKeys == {"production_endpoints", "sandbox_endpoints"}

\* utils.MergeJSON(left, right): the right-biased merge of two documents,
\* recursive where both sides hold an object
RECURSIVE MergeJSON(_, _)
MergeJSON(left, right) ==
    [k \in DOMAIN left \cup DOMAIN right |->
        IF k \notin DOMAIN right THEN left[k]
        ELSE IF k \in DOMAIN left /\ k \in ObjectKeys
             THEN MergeJSON(left[k], right[k])
             ELSE right[k]]

\* extractAPIDefinition / extractAPIProductDefinition: json.Unmarshal into the
\* typed definition; an absent key leaves the zero value
extractAPIDefinition(doc) ==
    TypedDef(IF Has(doc, "id.apiName") THEN doc["id.apiName"] ELSE << >>,
             IF Has(doc, "id.version") THEN doc["id.version"] ELSE << >>,
             IF Has(doc, "context") THEN doc["context"] ELSE << >>,
             IF Has(doc, "contextTemplate") THEN doc["contextTemplate"] ELSE << >>,
             Opt(doc, "tags"),
             IF Has(doc, "uriTemplates") THEN Some(doc["uriTemplates"]) ELSE Nil,
             IF Has(doc, "implementation") THEN doc["implementation"] ELSE "")

\* json.Marshal(apiInfo): the typed definition as a document
MarshalDef(k, def) ==
    LET base == [x \in {"id.apiName", "id.version", "context", "contextTemplate"} |->
                    CASE x = "id.apiName" -> def.apiName
                      [] x = "id.version" -> def.version
                      [] x = "context" -> def.context
                      [] x = "contextTemplate" -> def.contextTemplate]
        tagged == SetOpt(base, "tags", def.tags)
    IN IF k = "api"
       THEN SetP(SetOpt(tagged, "uriTemplates", def.uriTemplates),
                 "implementation", def.implementation)
       ELSE tagged

\* a loader that prefers api.json
resolveYamlOrJson_JsonFirst(y, j) == IF j # << >> THEN j ELSE y

\* resolveYamlOrJson: the file that is loaded, << >> when neither exists (a
\* file is present when os.Stat finds it and it is not a directory)
resolveYamlOrJson(y, j) == IF y # << >> THEN y ELSE j

\* the definition of scenario A: context /pizza, version 1.0.0, no
\* context-template
PizzaContext == <<"/", "p", "i", "z", "z", "a">>
PizzaVersion == <<"1", ".", "0", ".", "0">>
PizzaDoc ==
    [k \in {"id.apiName", "id.version", "context", "endpointConfig", "environments"} |->
        CASE k = "id.apiName" -> <<"P", "i", "z", "z", "a">>
          [] k = "id.version" -> PizzaVersion
          [] k = "context" -> PizzaContext
          [] k = "endpointConfig" -> [endpoint_type |-> "http"]
          [] k = "environments" -> <<"Production and Sandbox">>]

\* the definitions an artifact may hold
ArtifactDocs ==
    {PizzaDoc} \cup
    {SetOpt(SetOpt(SetOpt(SetOpt(SetOpt(SetOpt(
        [k \in {"id.apiName", "id.version", "context", "x-custom"} |->
            CASE k = "id.apiName" -> n
              [] k = "id.version" -> <<"1">>
              [] k = "context" -> <<"/", "a">>
              [] k = "x-custom" -> "kept"],
        "contextTemplate", t),
        "endpointConfig", e[1]), "productionUrl", e[2]),
        "endpointSecured", IF sec THEN Some(TRUE) ELSE Nil),
        "endpointUTUsername", IF sec THEN Some("old") ELSE Nil),
        "endpointUTPassword", IF sec THEN Some("oldpw") ELSE Nil) :
        n \in {<<"a">>, << >>},
        t \in {Nil, Some(<<"/", "a", "/", VersionToken>>)},
        e \in {<<Some([endpoint_type |-> "http",
                      production_endpoints |-> [url |-> "http://prod",
                                                config |-> "null"],
                      sandbox_endpoints |-> [url |-> "http://sand"]]), Nil>>,
               <<Nil, Some("http://prod")>>,
               <<Nil, Nil>>},
        sec \in BOOLEAN}

\* the security overrides the pipeline is run with
PipelineSecurity ==
    {s \in SecurityOverrides :
        /\ s.enabled \in {"", "true", "false", "yes"}
        /\ s.enabled # "true" => s.username = "admin" /\ s.password = "secret"
                                 /\ s.type = "basic"
        /\ s.type # "basic" => s.username = "admin" /\ s.password = "secret"
        /\ s.username = "" => s.password = "secret"}

\* bound of the number of certificate overrides of one environment
MaxCerts == 1

\* each certificate override by what happens to its file: it is read and
\* decoded, it cannot be read, or it holds no PEM block
CertLists == Strs({"ok", "unreadable", "nopem"}, MaxCerts)

\* the environments of the override file: every endpoint, gateway and
\* security override without certificates, and every certificate list beside
\* an endpoint override and a security override that disables the security
PipelineEnvs ==
    {e \in [found : {TRUE},
            endpoints : {<< >>, [endpoint_type |-> "address",
                                 production_endpoints |-> [url |-> "http://dev"]]},
            gateway : {Nil, Some(<<"Production">>)},
            security : PipelineSecurity,
            certs : CertLists] :
        e.certs # << >> =>
            e.endpoints # << >> /\ e.gateway = Nil /\ e.security.enabled = "false"}
    \cup {NoEnv}

Init ==
    /\ kind \in {"api", "product"}
    /\ pc = "start"
    /\ result = ""
    /\ skipCleanup \in BOOLEAN
    /\ isDir \in BOOLEAN
    /\ tmpDir = "none" /\ ws = "none" /\ zip = "none"
    /\ wsDeferred = FALSE /\ zipDeferred = FALSE
    /\ yaml = << >> /\ json = << >> /\ certFile = FALSE
    /\ env = NoEnv /\ api = << >> /\ before = << >>
    /\ yamlAtInject = << >> /\ writers = {} /\ mergeStep = "none"
    /\ info = NoDef /\ dirty = FALSE /\ verdict = 0
    /\ fsIn = << >> /\ pathOut = NoPath
    /\ touched = {}
    /\ NoRemote

\* a return statement of ImportAPI / ImportAPIProduct: the deferred functions
\* run next
Return(err) ==
    /\ pc' = "returning"
    /\ result' = err

resourceVars == <<tmpDir, ws, zip, wsDeferred, zipDeferred>>
fileVars == <<yaml, json, certFile>>
paramVars == <<fsIn, pathOut>>
mergeVars == <<env, api, before, yamlAtInject, writers, mergeStep, fsIn, pathOut>>
defVars == <<info, dirty, verdict>>
remoteVars == <<update, overwrite, queries, uploads, flags, matches, request, status,
                query, matched, endpoint, appId>>
flagVars == <<kind, skipCleanup, isDir>>

\* a pre-processing that writes the definition back into the artifact
writeTarget_InPlace(stage) ==
    IF stage = "package" THEN "tempfile"
    ELSE IF stage = "preProcessAPI" THEN "source"
    ELSE "workspace"

\* the location under which a stage creates or writes its files: the archive
\* is a fresh file of ioutil.TempFile, everything else is under tmpPath, the
\* copy of the artifact in a fresh directory of ioutil.TempDir
writeTarget(stage) ==
    IF stage = "package" THEN "tempfile" ELSE "workspace"

\* resolveImportFilePath / resolveImportAPIProductFilePath
Resolve ==
    /\ pc = "start"
    /\ \E f \in LocatorInputs :
          LET r == resolveImportFilePath(f)
          IN IF r.err # "" THEN Return(r.err)
             ELSE pc' = "workspace" /\ result' = result
    /\ UNCHANGED <<flagVars, resourceVars, fileVars, mergeVars, defVars, remoteVars,
                   touched>>

\* tmpPath, err := getTempApiDirectory(resolved); defer func() {...}()
\* The workspace receives the artifact's definition as api.yaml, as api.json,
\* or receives none.
GetTempApiDirectory ==
    /\ pc = "workspace"
    /\ \/ \* ioutil.TempDir fails
          /\ Return("TempDir failed")
          /\ UNCHANGED <<resourceVars, fileVars, touched>>
       \/ \* CopyDir fails, or Unzip fails
          /\ tmpDir' = "exists"
          /\ Return(IF isDir THEN "CopyDir failed" ELSE "Unzip failed")
          /\ touched' = touched \cup {writeTarget("copy")}
          /\ UNCHANGED <<ws, zip, wsDeferred, zipDeferred, fileVars>>
       \/ \* the archive extracts to zero entries
          /\ ~isDir
          /\ tmpDir' = "exists"
          /\ Return("invalid API archive")
          /\ touched' = touched \cup {writeTarget("copy")}
          /\ UNCHANGED <<ws, zip, wsDeferred, zipDeferred, fileVars>>
       \/ \* the copy or the extraction succeeds; the cleanup is deferred
          /\ tmpDir' = "exists"
          /\ ws' = "exists"
          /\ wsDeferred' = TRUE
          /\ touched' = touched \cup {writeTarget("copy")}
          /\ \E doc \in ArtifactDocs, form \in {"yaml", "json", "none"} :
                /\ yaml' = IF form = "yaml" THEN <<doc>> ELSE << >>
                /\ json' = IF form = "json" THEN <<doc>> ELSE << >>
          /\ pc' = IF kind = "api" THEN "envsub" ELSE "dependents"
          /\ UNCHANGED <<result, zip, zipDeferred, certFile>>
    /\ UNCHANGED <<flagVars, mergeVars, defVars, remoteVars>>

\* preProcessDependentAPIs: the APIs inside an API Product project; their
\* files are not the product's definition
PreProcessDependentAPIs ==
    /\ pc = "dependents"
    /\ kind = "product"
    /\ \/ Return("dependent API failed")
       \/ pc' = "envsub" /\ result' = result
    /\ touched' = touched \cup {writeTarget("dependents")}
    /\ UNCHANGED <<flagVars, resourceVars, fileVars, mergeVars, defVars, remoteVars>>

\* replaceEnvVariables
ReplaceEnvVariables ==
    /\ pc = "envsub"
    /\ \/ Return("env substitution failed")
       \/ /\ pc' = IF kind = "api" THEN "preprocess" ELSE "load"
          /\ result' = result
    /\ touched' = touched \cup {writeTarget("envsub")}
    /\ UNCHANGED <<flagVars, resourceVars, fileVars, mergeVars, defVars, remoteVars>>

\* the endpointConfig preProcessAPI builds from the legacy fields
LegacyEndpointConfig(doc) ==
    LET conf0 == [k \in {"endpoint_type"} |-> "http"]
        conf1 == IF Has(doc, "productionUrl")
                 THEN SetP(conf0, "production_endpoints",
                           [url |-> doc["productionUrl"], config |-> "null"])
                 ELSE conf0
    IN IF Has(doc, "sandboxUrl")
       THEN SetP(conf1, "sandbox_endpoints",
                 [url |-> doc["sandboxUrl"], config |-> "null"])
       ELSE conf1

\* a pre-processing that builds the endpointConfig and keeps the legacy fields
preProcessed_KeepsLegacy(doc) ==
    IF Has(doc, "endpointConfig") THEN doc
    ELSE SetP(doc, "endpointConfig", LegacyEndpointConfig(doc))

\* the document preProcessAPI leaves
preProcessed(doc) ==
    IF Has(doc, "endpointConfig") THEN doc
    ELSE SetP(Delete(Delete(doc, "productionUrl"), "sandboxUrl"),
              "endpointConfig", LegacyEndpointConfig(doc))

\* preProcessAPI
PreProcessAPI ==
    /\ pc = "preprocess"
    /\ LET loaded == resolveYamlOrJson(yaml, json)
       IN /\ before' = loaded
          /\ IF loaded = << >>
             THEN Return("definition not found") /\ UNCHANGED <<fileVars, writers, touched>>
             ELSE IF Has(loaded[1], "endpointConfig")
                  THEN /\ pc' = "params" /\ result' = result
                       /\ UNCHANGED <<fileVars, writers, touched>>
                  ELSE \/ \* ioutil.WriteFile fails
                          /\ Return("write failed: preProcessAPI")
                          /\ UNCHANGED <<fileVars, writers, touched>>
                       \/ /\ yaml' = <<preProcessed(loaded[1])>>
                          /\ writers' = writers \cup {"preProcessAPI"}
                          /\ touched' = touched \cup {writeTarget("preProcessAPI")}
                          /\ pc' = "params" /\ result' = result
                          /\ UNCHANGED <<json, certFile>>
    /\ UNCHANGED <<flagVars, resourceVars, env, api, yamlAtInject, mergeStep,
                   paramVars, defVars, remoteVars>>

\* the answers of the file system the pipeline is run with: nothing anywhere;
\* the file in the import root; a directory of that name in the import root
\* and the file in the working directory; the file at the explicit path, with
\* or without another at a default location; no file, or a directory, at the
\* explicit path although the default locations hold the file
PipelineParamInputs(rootIsDir) ==
    {f \in ParamInputs :
        /\ f.rootIsDir = rootIsDir /\ f.getwd
        /\ f.parent = "missing"
        /\ \/ /\ f.root = "missing" /\ f.cwd = "missing"
              /\ f.requested = "default" \/ f.explicit = "file"
           \/ f.root = "file" /\ f.cwd = "missing" /\ f.requested = "default"
           \/ f.root = "dir" /\ f.cwd = "file" /\ f.requested = "default"
           \/ /\ f.root = "missing" /\ f.cwd = "file"
              /\ f.requested # "default" /\ f.explicit # "file"}

\* an ImportAPI that returns every error of the discovery
paramsError_Strict(requested, r) == r.err

\* ImportAPI line 809: the error of the discovery is returned only for a path
\* that is neither the default name nor empty
paramsError(requested, r) ==
    IF r.err # "" /\ requested # "default" /\ requested # "empty" THEN r.err ELSE ""

\* resolveAPIParamsPath and the head of injectParamsToAPI: the override file
\* is looked up, loaded, and the target environment is looked up in it
ResolveParams ==
    /\ pc = "params"
    /\ \E f \in PipelineParamInputs(isDir) :
        LET r == resolveAPIParamsPath(f)
        IN /\ fsIn' = f
           /\ pathOut' = r
           /\ IF paramsError(f.requested, r) # ""
              THEN /\ Return(paramsError(f.requested, r))
                   /\ UNCHANGED <<env, yamlAtInject>>
              ELSE IF r.path = ""
              THEN \* no override file: injectParamsToAPI is not called
                   /\ pc' = "load" /\ result' = result
                   /\ UNCHANGED <<env, yamlAtInject>>
              ELSE \/ \* params.LoadApiParamsFromFile fails
                      /\ yamlAtInject' = yaml
                      /\ Return("parameters file not loaded")
                      /\ UNCHANGED env
                   \/ \* the file is loaded: envParams := apiParams.GetEnv(importEnvironment)
                      /\ yamlAtInject' = yaml
                      /\ \E e \in PipelineEnvs :
                            /\ env' = e
                            /\ pc' = IF e.found THEN "merge" ELSE "load"
                      /\ result' = result
    /\ UNCHANGED <<flagVars, resourceVars, fileVars, api, before, writers, mergeStep,
                   defVars, remoteVars, touched>>

\* a merge that replaces the endpoint configuration by the override's block
mergedEndpoints_Replace(doc, e) ==
    SetOpt(SetP(doc, "endpointConfig", e.endpoints), "environments", e.gateway)

\* a merge of the endpoints that leaves the gateway environments as they were
mergedEndpoints_KeepsGateway(doc, e) ==
    SetP(doc, "endpointConfig", MergeJSON(doc["endpointConfig"], e.endpoints))

\* the container mergeAPI holds when it reaches the security step
mergedEndpoints(doc, e) ==
    LET c1 == SetP(doc, "endpointConfig", MergeJSON(doc["endpointConfig"], e.endpoints))
    IN SetOpt(c1, "environments", e.gateway)

\* mergeAPI that writes the definition before it handles the security override
mergeOutcome_WriteFirst(doc, e) ==
    LET r == handleSecurityEndpointsParams(e.security, mergedEndpoints(doc, e))
    IN [api |-> r.api, err |-> r.err, written |-> TRUE]

\* mergeAPI from the loaded document on: the container it ends with, the error
\* of the security step, and whether it goes on to write the definition
mergeOutcome(doc, e) ==
    LET r == handleSecurityEndpointsParams(e.security, mergedEndpoints(doc, e))
    IN [api |-> r.api, err |-> r.err, written |-> r.err = ""]

\* mergeAPI(importPath, envParams)
MergeAPI ==
    /\ pc = "merge"
    /\ before' = resolveYamlOrJson(yaml, json)
    /\ LET doc == resolveYamlOrJson(yaml, json)[1]
           m == mergeOutcome(doc, env)
       IN \/ \* ExtractAPIEndpointConfig or MergeJSON fails
             /\ mergeStep' = "endpoints"
             /\ Return("endpoint merge failed")
             /\ UNCHANGED <<fileVars, api, writers, touched>>
          \/ \* the security step is reached
             /\ api' = m.api
             /\ IF m.written
                THEN \/ \* ioutil.WriteFile fails
                        /\ mergeStep' = "write"
                        /\ Return("write failed: mergeAPI")
                        /\ UNCHANGED <<fileVars, writers, touched>>
                     \/ /\ mergeStep' = "written"
                        /\ yaml' = <<m.api>>
                        /\ writers' = writers \cup {"mergeAPI"}
                        /\ touched' = touched \cup {writeTarget("mergeAPI")}
                        /\ IF m.err = "" THEN pc' = "certs" /\ result' = result
                           ELSE Return(m.err)
                        /\ UNCHANGED <<json, certFile>>
                ELSE /\ mergeStep' = "security"
                     /\ Return(m.err)
                     /\ UNCHANGED <<fileVars, writers, touched>>
    /\ UNCHANGED <<flagVars, resourceVars, env, yamlAtInject, paramVars, defVars,
                   remoteVars>>

\* generateCertificates: "" when every certificate is processed, else the
\* error of the first that is not; a file with no PEM block makes pem.Decode
\* return a nil block, whose Bytes are then read
certOutcome(certs) ==
    IF \A i \in 1..Len(certs) : certs[i] = "ok" THEN ""
    ELSE LET i == CHOOSE j \in 1..Len(certs) :
                     certs[j] # "ok" /\ \A q \in 1..(j - 1) : certs[q] = "ok"
         IN IF certs[i] = "unreadable" THEN "certificate not read"
            ELSE "panic: nil pointer dereference"

\* generateCertificates(importPath, envParams) and the return of injectParamsToAPI
GenerateCertificates ==
    /\ pc = "certs"
    /\ IF certOutcome(env.certs) # ""
       THEN /\ Return(certOutcome(env.certs))
            /\ UNCHANGED <<fileVars, env, api, touched>>
       ELSE /\ IF env.certs = << >>
               THEN /\ certFile' = certFile /\ pc' = "load" /\ result' = result
                    /\ UNCHANGED touched
               ELSE \/ \* ioutil.WriteFile fails
                       /\ Return("write failed: certificates") /\ certFile' = certFile
                       /\ UNCHANGED touched
                    \/ /\ certFile' = TRUE /\ pc' = "load" /\ result' = result
                       /\ touched' = touched \cup {writeTarget("certificates")}
            /\ UNCHANGED <<yaml, json, env, api>>
    /\ UNCHANGED <<flagVars, resourceVars, before, yamlAtInject, writers, mergeStep,
                   paramVars, defVars, remoteVars>>

\* getAPIDefinition, populateApiWithDefaults and the write of the defaulted
\* definition (likewise for an API Product); envParams and the container of
\* mergeAPI are out of scope by now
Defaults ==
    /\ pc = "load"
    /\ before' = resolveYamlOrJson(yaml, json)
    /\ LET loaded == resolveYamlOrJson(yaml, json)
       IN IF loaded = << >>
          THEN /\ Return("definition not found")
               /\ UNCHANGED <<fileVars, writers, defVars, touched>>
          ELSE LET r == populateWithDefaults(kind, extractAPIDefinition(loaded[1]))
               IN /\ info' = r.def
                  /\ dirty' = r.dirty
                  /\ verdict' = verdict
                  /\ IF r.dirty
                     THEN \/ \* ioutil.WriteFile fails
                             /\ Return("write failed: defaults")
                             /\ UNCHANGED <<fileVars, writers, touched>>
                          \/ /\ yaml' = <<MergeJSON(loaded[1], MarshalDef(kind, r.def))>>
                             /\ writers' = writers \cup {"defaults"}
                             /\ touched' = touched \cup {writeTarget("defaults")}
                             /\ pc' = "validate" /\ result' = result
                             /\ UNCHANGED <<json, certFile>>
                     ELSE /\ pc' = "validate" /\ result' = result
                          /\ UNCHANGED <<fileVars, writers, touched>>
    /\ env' = NoEnv /\ api' = << >>
    /\ UNCHANGED <<flagVars, resourceVars, yamlAtInject, mergeStep, paramVars, remoteVars>>

\* a validation step whose error is not returned
Validate_Lenient ==
    /\ pc = "validate"
    /\ verdict' = validateDefinition(kind, info)
    /\ pc' = "package" /\ result' = result
    /\ UNCHANGED <<flagVars, resourceVars, fileVars, mergeVars, info, dirty, remoteVars,
                   touched>>

\* validateApiDefinition(apiInfo) / validateApiProductDefinition(apiProductInfo)
Validate ==
    /\ pc = "validate"
    /\ verdict' = validateDefinition(kind, info)
    /\ IF verdict' # 0 THEN Return(ValidationError(verdict'))
       ELSE pc' = "package" /\ result' = result
    /\ UNCHANGED <<flagVars, resourceVars, fileVars, mergeVars, info, dirty, remoteVars,
                   touched>>

\* the packaging step: ioutil.TempFile, utils.Zip, then the deferred removal
Package ==
    /\ pc = "package"
    /\ \/ \* ioutil.TempFile fails
          /\ Return("TempFile failed")
          /\ UNCHANGED <<zip, zipDeferred, touched>>
       \/ \* utils.Zip fails, after the file was created
          /\ zip' = "exists"
          /\ touched' = touched \cup {writeTarget("package")}
          /\ Return("Zip failed")
          /\ UNCHANGED zipDeferred
       \/ /\ zip' = "exists"
          /\ touched' = touched \cup {writeTarget("package")}
          /\ zipDeferred' = TRUE
          /\ pc' = "lookup" /\ result' = result
    /\ UNCHANGED <<flagVars, tmpDir, ws, wsDeferred, fileVars, mergeVars, defVars,
                   remoteVars>>

\* bound of the number of entities one catalog query returns
MaxMatches == 2

\* strconv.FormatBool
FormatBool(b) == IF b THEN "true" ELSE "false"

\* the identifier of the i-th entity of the catalog
EntityId(i) == "id-" \o ToString(i)

\* the provider of the definition that is imported, and another provider
DefinitionProvider == "admin"
Providers == {DefinitionProvider, "other"}

\* the fields of the search query of getApiID / getApiProductID
lookupQuery(k) == IF k = "api" THEN {"name", "version"} ELSE {"name", "version", "type"}

\* what GetAPIListFromEnv / GetAPIProductListFromEnv return: an error, or the
\* count and the summaries of the entities that match the query.  The first
\* entity, the only one whose id is used, is of either provider.
CatalogAnswers ==
    {[err |-> TRUE, count |-> 0, ids |-> << >>, providers |-> << >>]} \cup
    {[err |-> FALSE, count |-> n, ids |-> [i \in 1..n |-> EntityId(i)],
      providers |-> [i \in 1..n |-> IF i = 1 THEN p ELSE DefinitionProvider]] :
        n \in 0..MaxMatches, p \in Providers}

\* a lookup that takes only an entity of the definition's provider for existing
getApiID_SameProvider(answer) ==
    IF answer.err THEN [id |-> "", err |-> "catalog query failed"]
    ELSE IF answer.count = 0 \/ answer.providers[1] # DefinitionProvider
         THEN [id |-> "", err |-> ""]
    ELSE [id |-> answer.ids[1], err |-> ""]

\* getApiID / getApiProductID
getApiID(answer) ==
    IF answer.err THEN [id |-> "", err |-> "catalog query failed"]
    ELSE IF answer.count = 0 THEN [id |-> "", err |-> ""]
    ELSE [id |-> answer.ids[1], err |-> ""]

\* the flags of import-api (importAPIUpdate, preserveProvider) and of
\* import-api-product (importAPIProductUpdate, importAPIs, importAPIsUpdate,
\* importAPIProductPreserveProvider)
CommandFlags(k) ==
    [update : BOOLEAN,
     importAPIs : IF k = "api" THEN {FALSE} ELSE BOOLEAN,
     importAPIsUpdate : IF k = "api" THEN {FALSE} ELSE BOOLEAN,
     preserveProvider : BOOLEAN]

\* the condition under which the existence lookup is made
lookupWanted(k, f) == IF k = "api" THEN f.update ELSE f.importAPIsUpdate \/ f.update

\* an import URL that asks for the overwrite whatever the lookup returned
importURL_OverwriteOnFlag(k, f, found) ==
    IF k = "api"
    THEN [x \in {"overwrite", "preserveProvider"} |->
             IF x = "overwrite" THEN FormatBool(TRUE)
             ELSE FormatBool(f.preserveProvider)]
    ELSE [x \in {"overwriteAPIProduct", "preserveProvider"} |->
             IF x = "overwriteAPIProduct" THEN FormatBool(TRUE)
             ELSE FormatBool(f.preserveProvider)]

\* the query parameters of the import URL; found is updateAPI / updateAPIProduct
importURL(k, f, found) ==
    LET q0 == [x \in {"preserveProvider"} |-> FormatBool(f.preserveProvider)]
    IN IF k = "api"
       THEN IF found THEN SetP(q0, "overwrite", FormatBool(TRUE)) ELSE q0
       ELSE LET q1 == IF f.importAPIs \/ f.importAPIsUpdate
                      THEN SetP(q0, "importAPIs", FormatBool(TRUE)) ELSE q0
                q2 == IF f.importAPIsUpdate
                      THEN SetP(q1, "overwriteAPIs", FormatBool(TRUE)) ELSE q1
            IN IF found THEN SetP(q2, "overwriteAPIProduct", FormatBool(TRUE)) ELSE q2

\* an import request whose method depends on the entity having been found
importEndpoint_PutOnUpdate(k, found) ==
    [method |-> IF found THEN "PUT" ELSE "POST",
     path |-> IF k = "api" THEN "/import/api" ELSE "/import/api-product",
     payload |-> "archive"]

\* httpMethod, the path appended to adminEndpoint and the file that is sent
importEndpoint(k, found) ==
    [method |-> "POST",
     path |-> IF k = "api" THEN "/import/api" ELSE "/import/api-product",
     payload |-> "archive"]

\* the existence lookup (getApiID / getApiProductID when an update is asked
\* for) and the import URL built from its answer
Lookup ==
    /\ pc = "lookup"
    /\ \E f \in CommandFlags(kind) :
          /\ flags' = f
          /\ update' = lookupWanted(kind, f)
          /\ IF lookupWanted(kind, f)
             THEN /\ queries' = queries + 1
                  /\ query' = lookupQuery(kind)
                  /\ \E answer \in CatalogAnswers :
                        LET r == getApiID(answer)
                        IN IF r.err # ""
                           THEN /\ Return(r.err)
                                /\ UNCHANGED <<overwrite, matches, request, matched,
                                               endpoint>>
                           ELSE /\ matches' = answer.count
                                /\ matched' = IF answer.count = 0 THEN ""
                                              ELSE answer.providers[1]
                                /\ overwrite' = (r.id # "")
                                /\ request' = importURL(kind, f, r.id # "")
                                /\ endpoint' = importEndpoint(kind, r.id # "")
                                /\ pc' = "upload" /\ result' = result
             ELSE /\ request' = importURL(kind, f, FALSE)
                  /\ endpoint' = importEndpoint(kind, FALSE)
                  /\ pc' = "upload" /\ result' = result
                  /\ UNCHANGED <<queries, overwrite, matches, query, matched>>
    /\ UNCHANGED <<flagVars, resourceVars, fileVars, mergeVars, defVars, uploads, status,
                   touched, appId>>

\* importAPI / importAPIProduct that take 207 Multi-Status for a success
uploadResult_AcceptsMultiStatus(code) ==
    IF code = 0 THEN "transport error"
    ELSE IF code \in {200, 201, 207} THEN "ok"
    ELSE "status " \o ToString(code)

\* what importAPI / importAPIProduct return for the upload's outcome: nil, the
\* error of client.Do (no response, code 0), or errors.New(resp.Status)
uploadResult(code) ==
    IF code = 0 THEN "transport error"
    ELSE IF code \in {200, 201} THEN "ok"
    ELSE "status " \o ToString(code)

\* the responses the pipeline is run with
PipelineStatuses == {0, 200, 207, 500}

\* an upload that is sent again when no response arrives
Upload_Retry ==
    /\ pc = "upload"
    /\ uploads < 3
    /\ uploads' = uploads + 1
    /\ \E code \in PipelineStatuses :
          /\ status' = code
          /\ IF code = 0 THEN pc' = pc /\ result' = result
             ELSE Return(uploadResult(code))
    /\ UNCHANGED <<flagVars, resourceVars, fileVars, mergeVars, defVars, update,
                   overwrite, queries, flags, matches, request, query, matched,
                   endpoint, touched, appId>>

\* importAPI / importAPIProduct
Upload ==
    /\ pc = "upload"
    /\ uploads' = uploads + 1
    /\ \E code \in PipelineStatuses :
          /\ status' = code
          /\ Return(uploadResult(code))
    /\ UNCHANGED <<flagVars, resourceVars, fileVars, mergeVars, defVars, update,
                   overwrite, queries, flags, matches, request, query, matched,
                   endpoint, touched, appId>>

\* the deferred function of the packaging step: os.Remove(tmp.Name())
cleanupArchive(registered, skip, cur) ==
    IF registered /\ ~skip THEN "removed" ELSE cur

\* the deferred removal without the test of the skip-cleanup flag
cleanupWorkspace_IgnoresSkip(registered, skip, cur) ==
    IF registered THEN "removed" ELSE cur

\* the deferred function of the workspace: os.RemoveAll(tmpPath)
cleanupWorkspace(registered, skip, cur) ==
    IF registered /\ ~skip THEN "removed" ELSE cur

\* the deferred functions run, last registered first, and the run ends
Exit ==
    /\ pc = "returning"
    /\ zip' = cleanupArchive(zipDeferred, skipCleanup, zip)
    /\ ws' = cleanupWorkspace(wsDeferred, skipCleanup, ws)
    /\ IF ws' = "removed"
       THEN yaml' = << >> /\ json' = << >> /\ certFile' = FALSE
       ELSE UNCHANGED fileVars
    /\ pc' = "done"
    /\ UNCHANGED <<flagVars, result, tmpDir, wsDeferred, zipDeferred, mergeVars,
                   defVars, remoteVars, touched>>

Next ==
    \/ Resolve
    \/ GetTempApiDirectory
    \/ PreProcessDependentAPIs
    \/ ReplaceEnvVariables
    \/ PreProcessAPI
    \/ ResolveParams
    \/ MergeAPI
    \/ GenerateCertificates
    \/ Defaults
    \/ Validate
    \/ Package
    \/ Lookup
    \/ Upload
    \/ Exit

Spec == Init /\ [][Next]_vars

-----------------------------------------------------------------------------
(* Statements about the resources of a run.                                *)

\* C1: once the workspace is created, every way the run ends removes the
\* workspace path tmpPath, unless skip-cleanup was requested, and then the
\* workspace is never removed.
C1_WorkspaceReleased ==
    /\ (pc = "done" /\ wsDeferred /\ ~skipCleanup) => ws = "removed"
    /\ (pc = "done" /\ wsDeferred /\ skipCleanup) => ws = "exists"
    /\ skipCleanup => ws # "removed"

\* a run that failed at the catalog lookup ended with the workspace removed
C1_Witness ==
    /\ pc = "done" /\ result = "catalog query failed"
    /\ ~skipCleanup /\ ws = "removed"

\* C2: when the archive extracts to zero entries the run fails with the
\* invalid-archive error and the temporary directory made for the extraction
\* no longer exists when the run returns (retention not requested).
C2_EmptyArchiveCleaned ==
    (pc = "done" /\ result = "invalid API archive" /\ ~skipCleanup)
        => tmpDir # "exists"

\* C3: after a run without retention, for a directory as for an archive, the
\* temporary directory allocated by getTempApiDirectory no longer exists.
C3_TempDirRemoved ==
    (pc = "done" /\ wsDeferred /\ ~skipCleanup) => tmpDir = "removed"

\* C4: the temporary zip is released on every exit path that follows its
\* creation, unless retention was requested.
C4_ArchiveReleased ==
    (pc = "done" /\ zip # "none" /\ ~skipCleanup) => zip = "removed"

-----------------------------------------------------------------------------
(* Statements about the parameter merge.                                   *)

IncompleteSecurityErrors == {ErrUsername, ErrPassword, ErrType}

\* the errors with which injectParamsToAPI ends once mergeAPI has begun
InjectErrors ==
    IncompleteSecurityErrors \cup
    {"endpoint merge failed", ErrParseBool, ErrSecurityType, "write failed: mergeAPI",
     "certificate not read", "panic: nil pointer dereference",
     "write failed: certificates"}

\* C5: if any step of the parameter merge fails (endpoint merge, gateway
\* environments, security override, certificate processing), api.yaml has the
\* content it had before injectParamsToAPI was called.
C5_NoPartialMerge ==
    (pc = "returning" /\ result \in InjectErrors) => yaml = yamlAtInject

\* the override enables security and lacks the username, the password or the type
IncompleteSecurity(sec) ==
    /\ sec.set /\ ParseBool(sec.enabled) = "true"
    /\ sec.username = "" \/ sec.password = "" \/ sec.type = ""

SecurityStepReached == mergeStep \in {"security", "write", "written"}

\* C6 as stated: with security enabled and the password (username, type)
\* missing, the run fails with the incomplete-security-config error and no
\* stage of the run has written the definition file by then.
C6_AsStated ==
    (pc = "returning" /\ result \in IncompleteSecurityErrors) => writers = {}

\* C6 amended: when mergeAPI reaches the security step with security enabled
\* and the password (username, type) missing, the run fails there with the
\* incomplete-security-config error before mergeAPI writes: api.yaml has the
\* content it had when injectParamsToAPI was called (a stage before the merge
\* may have written it: preProcessAPI does when endpointConfig is absent).
C6_FailsBeforeMergeWrite ==
    /\ (SecurityStepReached /\ IncompleteSecurity(env.security)) =>
          /\ pc \in {"returning", "done"}
          /\ result \in IncompleteSecurityErrors
    /\ (pc = "returning" /\ result \in IncompleteSecurityErrors) =>
          /\ IncompleteSecurity(env.security)
          /\ yaml = yamlAtInject
          /\ "mergeAPI" \notin writers

\* the run is returning the missing-password error
C6_Witness ==
    /\ pc = "returning" /\ result = ErrPassword
    /\ env.security.enabled = "true" /\ env.security.password = ""
    /\ yaml # << >>

\* the override enables security and gives username, password and type
CompleteSecurity(sec) ==
    /\ sec.set /\ ParseBool(sec.enabled) = "true"
    /\ sec.username # "" /\ sec.password # "" /\ sec.type # ""

\* C8: with enabled=true and non-empty username, password and type, the
\* merged definition has endpointSecured=true, the override's username and
\* password, and endpointAuthDigest true for type digest, false for type
\* basic; any other type fails the merge with the invalid-security-type error
\* and nothing is written.
C8_SecurityOverrideApplied ==
    (SecurityStepReached /\ CompleteSecurity(env.security)) =>
        IF env.security.type \in {"digest", "basic"}
        THEN /\ result # ErrSecurityType
             /\ pc = "certs" =>
                   /\ mergeStep = "written"
                   /\ Opt(yaml[1], "endpointSecured") = Some(TRUE)
                   /\ Opt(yaml[1], "endpointUTUsername") = Some(env.security.username)
                   /\ Opt(yaml[1], "endpointUTPassword") = Some(env.security.password)
                   /\ Opt(yaml[1], "endpointAuthDigest") = Some(env.security.type = "digest")
        ELSE /\ pc \in {"returning", "done"}
             /\ result = ErrSecurityType
             /\ "mergeAPI" \notin writers
             /\ pc = "returning" => yaml = yamlAtInject

\* a digest override replaced the stored credentials in the written definition
C8_Witness ==
    /\ pc = "certs" /\ mergeStep = "written"
    /\ CompleteSecurity(env.security) /\ env.security.type = "digest"
    /\ Opt(yamlAtInject[1], "endpointUTUsername") = Some("old")
    /\ Opt(yaml[1], "endpointUTUsername") = Some("admin")
    /\ Opt(yaml[1], "endpointAuthDigest") = Some(TRUE)

-----------------------------------------------------------------------------
(* Statements about the override file, the loads, the merges and the       *)
(* request of a run.                                                       *)

\* the discovery of the override file has run
ParamsResolved == fsIn # << >>

\* the errors of the validator
ValidationErrors == {ValidationError(r) : r \in 1..7}

\* scenario A: ImportAPI on a directory artifact that holds the pizza
\* definition, default override name, no override file at any location; the
\* Defaults stage has left its typed definition
ScenarioA ==
    /\ kind = "api" /\ isDir
    /\ ParamsResolved /\ fsIn.requested = "default" /\ pathOut.path = ""
    /\ info # NoDef /\ info.apiName = PizzaDoc["id.apiName"]

\* C12 as stated: in scenario A the Defaults stage ends with final context
\* /pizza and context-template /pizza/{version}.
C12_AsStated ==
    ScenarioA =>
        /\ info.context = PizzaContext
        /\ info.contextTemplate = PizzaContext \o <<"/", VersionToken>>

\* C12 amended: in scenario A the Defaults stage ends with final context
\* /pizza/1.0.0 (the template with {version} replaced by the version) and
\* context-template /pizza/{version}, and validation passes.
C12_ScenarioA ==
    ScenarioA =>
        /\ info.context = PizzaContext \o <<"/">> \o PizzaVersion
        /\ info.contextTemplate = PizzaContext \o <<"/", VersionToken>>
        /\ result \notin ValidationErrors
        /\ pc \in {"package", "lookup", "upload"} => verdict = 0

\* scenario A has passed the validator
C12_Witness ==
    /\ ScenarioA /\ pc = "package" /\ verdict = 0 /\ dirty
    /\ info.context = PizzaContext \o <<"/">> \o PizzaVersion

\* m is the right-biased deep merge of l and r: it has the keys of both, the
\* left value of every key absent from the right, the right value of every key
\* present on the right, merged in turn where both sides hold an object
RECURSIVE IsRightBiasedMerge(_, _, _)
IsRightBiasedMerge(l, r, m) ==
    /\ DOMAIN m = DOMAIN l \cup DOMAIN r
    /\ \A k \in DOMAIN l \ DOMAIN r : m[k] = l[k]
    /\ \A k \in DOMAIN r :
          IF k \in DOMAIN l /\ k \in ObjectKeys
          THEN IsRightBiasedMerge(l[k], r[k], m[k])
          ELSE m[k] = r[k]

\* the keys the parameter merge sets in the definition
MergeStageKeys == {"endpointConfig", "environments"} \cup SecurityKeys

\* C14: both uses of the right-biased deep merge keep every key absent from
\* the right-hand side and take the right-hand value of every key present on
\* it: the endpointConfig mergeAPI writes is that merge of the loaded
\* endpointConfig and the override's endpoint block, and every other field of
\* the loaded document that the merge stage does not set (unknown fields
\* included) is written as it was; the document the Defaults stage writes is
\* that merge of the loaded document and the defaulted typed definition.
C14_RightBiasedMerge ==
    /\ (mergeStep = "written" /\ env.found /\ yaml # << >>) =>
          /\ IsRightBiasedMerge(before[1]["endpointConfig"], env.endpoints,
                                yaml[1]["endpointConfig"])
          /\ \A k \in DOMAIN before[1] \ MergeStageKeys :
                k \in DOMAIN yaml[1] /\ yaml[1][k] = before[1][k]
    /\ (dirty /\ "defaults" \in writers /\ yaml # << >>) =>
          IsRightBiasedMerge(before[1], MarshalDef(kind, info), yaml[1])

\* the merge stage and the Defaults stage have both written: the override's
\* production URL replaced the stored one beside the stored config, the
\* sandbox endpoint and the unknown field are kept, and the context-template
\* the loaded document lacked is the defaulted one
C14_Witness ==
    /\ pc = "validate" /\ {"mergeAPI", "defaults"} \subseteq writers
    /\ Has(yaml[1], "x-custom")
    /\ Has(yaml[1]["endpointConfig"], "production_endpoints")
    /\ Has(yaml[1]["endpointConfig"], "sandbox_endpoints")
    /\ yaml[1]["endpointConfig"]["production_endpoints"] =
          [url |-> "http://dev", config |-> "null"]
    /\ yaml[1]["endpointConfig"]["sandbox_endpoints"] = [url |-> "http://sand"]
    /\ yaml[1]["endpointConfig"]["endpoint_type"] = "address"
    /\ yaml[1]["x-custom"] = "kept"
    /\ ~Has(before[1], "contextTemplate")
    /\ yaml[1]["contextTemplate"] = info.contextTemplate

\* the query parameter that asks the service to overwrite the entity
OverwriteParam == IF kind = "api" THEN "overwrite" ELSE "overwriteAPIProduct"

\* C15: when the catalog lookup returns zero entities the request is a create
\* (no overwrite parameter); when it returns one or more the request is an
\* update (overwrite=true for an API, overwriteAPIProduct=true for an API
\* Product); the matched identifier is no part of the request.
C15_CreateOrUpdate ==
    (matches # -1 /\ request # << >>) =>
        /\ matches = 0 => ~Has(request, OverwriteParam)
        /\ matches >= 1 => Opt(request, OverwriteParam) = Some("true")
        /\ \A i \in 1..matches, k \in DOMAIN request :
              request[k] # EntityId(i) /\ k # EntityId(i)

\* the lookup for an API Product returned two entities and the request asks
\* for the overwrite
C15_Witness ==
    /\ kind = "product" /\ pc = "upload" /\ matches = 2
    /\ Opt(request, "overwriteAPIProduct") = Some("true")

\* the errors with which the discovery or the load of the override file ends
ParamsErrors ==
    {"could not find the parameters file", "Getwd failed", "parameters file not loaded"}

\* C18: with no override path requested (the default name or an empty path)
\* and nothing found, the merger does nothing and the run goes on to the
\* Defaults stage without an error of the merger; with an explicit path only
\* that path is used, and the run fails when it is not a regular file.
C18_OverrideOptional ==
    /\ (ParamsResolved /\ fsIn.requested \in {"default", "empty"} /\ pathOut.path = "") =>
          /\ pc \notin {"params", "merge", "certs"}
          /\ mergeStep = "none" /\ env = NoEnv /\ ~certFile
          /\ yamlAtInject = << >> /\ "mergeAPI" \notin writers
          /\ result \notin ParamsErrors \cup InjectErrors
    /\ (ParamsResolved /\ fsIn.requested = "explicit") =>
          IF fsIn.explicit = "file"
          THEN pathOut = [path |-> "explicit", err |-> ""]
          ELSE /\ pathOut.path = ""
               /\ pc \in {"returning", "done"}
               /\ result = "could not find the parameters file"
               /\ mergeStep = "none"

\* the empty path was requested while the working directory holds
\* api_params.yaml: nothing was merged and the Defaults stage has run
C18_Witness ==
    /\ ParamsResolved /\ fsIn.requested = "empty" /\ fsIn.cwd = "file"
    /\ pathOut.path = "" /\ pathOut.err # ""
    /\ pc = "validate" /\ info # NoDef /\ mergeStep = "none"

\* a step that loads the definition: preProcessAPI, mergeAPI, getAPIDefinition
LoadStep == pc \in {"preprocess", "merge", "load"} /\ pc' # pc

\* C20: every load reads api.yaml when it exists as a regular file,
\* otherwise api.json, otherwise fails with definition-not-found; so once a
\* stage has written api.yaml, every later stage loads the written content,
\* also when the artifact shipped api.json only.
C20_YamlBeforeJson ==
    [][LoadStep =>
          /\ before' = IF yaml # << >> THEN yaml ELSE json
          /\ (yaml = << >> /\ json = << >>) =>
                pc' = "returning" /\ result' = "definition not found"
          /\ writers # {} => before' = yaml /\ yaml # << >>]_vars

\* the artifact shipped api.json only, preProcessAPI wrote api.yaml, and the
\* Defaults stage loaded what preProcessAPI wrote
C20_Witness ==
    /\ pc = "validate" /\ json # << >>
    /\ "preProcessAPI" \in writers /\ "mergeAPI" \notin writers
    /\ before # json
    /\ before = <<preProcessed(json[1])>>

-----------------------------------------------------------------------------
(* SpecDispatch: the outcome each importer reports for every HTTP status.  *)

\* the status codes of a response
StatusCodes == 100..599

\* executeImportAppCmd: what the command reports for the response of
\* ImportApplicationToEnv
executeImportAppCmd(code) ==
    IF code \in {200, 201} THEN "success"
    ELSE IF code = 207 THEN "partial"
    ELSE IF code = 401 THEN "failure: invalid credentials"
    ELSE IF code = 403 THEN "failure: invalid owner"
    ELSE "failure"

\* the outcome of an import for the status of its response
dispatchOutcome(k, code) ==
    IF k = "app" THEN executeImportAppCmd(code)
    ELSE IF uploadResult(code) = "ok" THEN "success"
    ELSE "failure: " \o uploadResult(code)

InitDispatch ==
    /\ kind \in {"api", "product", "app"}
    /\ pc = "response"
    /\ status \in StatusCodes
    /\ result = ""
    /\ info = NoDef /\ dirty = FALSE /\ verdict = 0
    /\ env = NoEnv /\ api = << >> /\ before = << >>
    /\ skipCleanup = FALSE /\ isDir = TRUE
    /\ tmpDir = "none" /\ ws = "none" /\ zip = "none"
    /\ wsDeferred = FALSE /\ zipDeferred = FALSE
    /\ yaml = << >> /\ json = << >> /\ certFile = FALSE
    /\ yamlAtInject = << >> /\ writers = {} /\ mergeStep = "none"
    /\ fsIn = << >> /\ pathOut = NoPath
    /\ update = FALSE /\ overwrite = FALSE /\ queries = 0 /\ uploads = 1
    /\ flags = NoFlags /\ matches = -1 /\ request = << >>
    /\ query = {} /\ matched = "" /\ endpoint = << >> /\ appId = ""
    /\ touched = {}

\* the response is mapped to the outcome
Dispatch ==
    /\ pc = "response"
    /\ result' = dispatchOutcome(kind, status)
    /\ pc' = "dispatched"
    /\ UNCHANGED <<kind, status, info, dirty, verdict, env, api, before, skipCleanup,
                   isDir, tmpDir, ws, zip, wsDeferred, zipDeferred, yaml, json,
                   certFile, yamlAtInject, writers, mergeStep, fsIn, pathOut, update,
                   overwrite, queries, uploads, flags, matches, request, query,
                   matched, endpoint, touched, appId>>

NextDispatch == Dispatch

SpecDispatch == InitDispatch /\ [][NextDispatch]_vars

Failure(outcome) ==
    outcome \notin {"success", "partial"}

-----------------------------------------------------------------------------
(* Statements about the remote calls of a run.                             *)

\* C21: no remote call is retried: in one run the catalog existence query is
\* issued at most once and the upload request at most once, whatever their
\* outcome.
C21_NoRetry ==
    /\ queries <= 1 /\ uploads <= 1
    /\ pc = "upload" => uploads = 0
    /\ pc = "lookup" => queries = 0 /\ uploads = 0

\* a run whose upload got no response has ended with one query and one upload
C21_Witness ==
    /\ pc = "done" /\ result = "transport error"
    /\ queries = 1 /\ uploads = 1

\* what a run returns once it has reached the remote calls
RemoteResults == {"catalog query failed"} \cup {uploadResult(c) : c \in PipelineStatuses}

\* C27: the catalog query and the upload are issued only after the defaulted
\* definition has passed validation and the artifact has been packaged; a run
\* that fails in an earlier stage issues no catalog query and no upload.
C27_ValidatedBeforeRemote ==
    /\ (queries > 0 \/ uploads > 0) =>
          /\ info # NoDef
          /\ validateDefinition(kind, info) = 0 /\ verdict = 0
          /\ zipDeferred /\ zip # "none"
          /\ pc \in {"upload", "returning", "done"}
    /\ (pc \in {"returning", "done"} /\ result \notin RemoteResults) =>
          queries = 0 /\ uploads = 0

\* a run has issued the query and the upload, after the validator accepted the
\* definition the defaults had changed and the archive was made
C27_Witness ==
    /\ pc = "returning" /\ queries = 1 /\ uploads = 1
    /\ dirty /\ verdict = 0 /\ zip = "exists"

-----------------------------------------------------------------------------
(* Statements about the certificate overrides.                             *)

\* C26: certificate overrides fail cleanly: when a certificate file is not
\* found, not readable or holds no PEM block, generateCertificates returns an
\* error and the run does not crash, and endpoint_certificates.yaml is not
\* written; the file is written only when at least one certificate override
\* is supplied and all of them were processed.
C26_CertificatesFailCleanly ==
    /\ result # "panic: nil pointer dereference"
    /\ (pc \in {"certs", "load"} \/ result \in {"certificate not read", "write failed: certificates"}) =>
          (certFile => env.certs # << >> /\ \A i \in 1..Len(env.certs) : env.certs[i] = "ok")
    /\ (pc \in {"returning", "done"} /\ env.certs # << >>
            /\ \E i \in 1..Len(env.certs) : env.certs[i] # "ok") => ~certFile

-----------------------------------------------------------------------------
(* Statements about the existence lookup and the import request.           *)

C25_ProductParameters ==
    (kind = "product" /\ request # << >>) =>
        /\ Opt(request, "preserveProvider") = Some(FormatBool(flags.preserveProvider))
        /\ Has(request, "importAPIs") <=> (flags.importAPIs \/ flags.importAPIsUpdate)
        /\ Has(request, "overwriteAPIs") <=> flags.importAPIsUpdate
        /\ Has(request, "overwriteAPIProduct") <=>
              ((flags.importAPIsUpdate \/ flags.update) /\ matches >= 1)
        /\ \A k \in DOMAIN request \ {"preserveProvider"} : request[k] = "true"
        /\ DOMAIN request \subseteq
              {"preserveProvider", "importAPIs", "overwriteAPIs", "overwriteAPIProduct"}
        /\ endpoint = [method |-> "POST", path |-> "/import/api-product",
                       payload |-> "archive"]

\* an API Product is imported with importAPIsUpdate alone, the lookup found
\* it, and the URL carries all four parameters
C25_Witness ==
    /\ kind = "product" /\ pc = "upload"
    /\ flags.importAPIsUpdate /\ ~flags.update /\ ~flags.importAPIs
    /\ matches >= 1
    /\ DOMAIN request =
          {"preserveProvider", "importAPIs", "overwriteAPIs", "overwriteAPIProduct"}

-----------------------------------------------------------------------------
(* Statements about the gateway-environment override.                      *)

\* C23: when the override carries a gateway list, the environments field of
\* the merged definition is that list exactly; when it carries none, the
\* environments field is as it was before the merge (absent when it was
\* absent).
C23_GatewayOverride ==
    (mergeStep = "written" /\ api # << >>) =>
        /\ yaml # << >> => yaml = <<api>>
        /\ IF env.gateway # Nil
           THEN Opt(api, "environments") = env.gateway
           ELSE Opt(api, "environments") = Opt(before[1], "environments")

\* the definition listed one gateway, the override lists another, and the
\* merged definition that was written lists the override's
C23_Witness ==
    /\ pc = "certs" /\ mergeStep = "written"
    /\ Opt(before[1], "environments") = Some(<<"Production and Sandbox">>)
    /\ env.gateway = Some(<<"Production">>)
    /\ Opt(yaml[1], "environments") = Some(<<"Production">>)

\* the definition listed one gateway, the override lists none, and the merged
\* definition still lists the definition's
C23_WitnessKept ==
    /\ pc = "certs" /\ mergeStep = "written"
    /\ env.found /\ env.gateway = Nil
    /\ Opt(yaml[1], "environments") = Some(<<"Production and Sandbox">>)

-----------------------------------------------------------------------------
(* Statements about the files a run writes.                                *)

-----------------------------------------------------------------------------
(* SpecPreProcess: preProcessAPI applied to every definition with or        *)
(* without an endpointConfig, a productionUrl and a sandboxUrl, held by     *)
(* the workspace as api.yaml, as api.json, or as both.                      *)

LegacyDocs ==
    {SetOpt(SetOpt(SetOpt(SetOpt([k \in {"id.apiName"} |-> <<"a">>],
        "endpointConfig", c), "productionUrl", p), "sandboxUrl", sb), "x-custom", x) :
        c \in {Nil, Some([endpoint_type |-> "http",
                          production_endpoints |-> [url |-> "http://old",
                                                    config |-> "null"]])},
        p \in {Nil, Some("http://prod")},
        sb \in {Nil, Some("http://sand")},
        x \in {Nil, Some("kept")}}

InitPreProcess ==
    /\ kind = "api"
    /\ pc = "preprocess"
    /\ result = ""
    /\ skipCleanup = FALSE /\ isDir = TRUE
    /\ tmpDir = "exists" /\ ws = "exists" /\ zip = "none"
    /\ wsDeferred = TRUE /\ zipDeferred = FALSE
    /\ yaml \in {<< >>} \cup {<<d>> : d \in LegacyDocs}
    /\ json \in {<< >>} \cup {<<d>> : d \in LegacyDocs}
    /\ certFile = FALSE
    /\ env = NoEnv /\ api = << >> /\ before = << >>
    /\ yamlAtInject = << >> /\ writers = {} /\ mergeStep = "none"
    /\ info = NoDef /\ dirty = FALSE /\ verdict = 0
    /\ fsIn = << >> /\ pathOut = NoPath
    /\ touched = {writeTarget("copy"), writeTarget("envsub")}
    /\ NoRemote

NextPreProcess == PreProcessAPI

SpecPreProcess == InitPreProcess /\ [][NextPreProcess]_vars

\* preProcessAPI has returned without an error for the definition in before
PreProcessDone == pc = "params" /\ before # << >>

\* C22 as stated: the definition is rewritten exactly when a legacy field is
\* present and no endpointConfig exists; in every other case it is left as
\* it was.
C22_AsStated ==
    PreProcessDone =>
        LET d == before[1]
            legacy == Has(d, "productionUrl") \/ Has(d, "sandboxUrl")
        IN IF legacy /\ ~Has(d, "endpointConfig")
           THEN "preProcessAPI" \in writers
           ELSE writers = {} /\ resolveYamlOrJson(yaml, json) = before

\* C22: exactly when the definition has no endpointConfig, preProcessAPI
\* gives it one (endpoint_type http, plus a production and a sandbox
\* sub-block with the url of each legacy field that is present), deletes
\* productionUrl and sandboxUrl, and writes api.yaml; when an endpointConfig
\* exists the definition is left as it was and is not rewritten.
C22_LegacyEndpoints ==
    PreProcessDone =>
        LET d == before[1]
            now == resolveYamlOrJson(yaml, json)[1]
        IN IF Has(d, "endpointConfig")
           THEN writers = {} /\ now = d
           ELSE /\ writers = {"preProcessAPI"} /\ yaml = <<now>>
                /\ ~Has(now, "productionUrl") /\ ~Has(now, "sandboxUrl")
                /\ Has(now, "endpointConfig")
                /\ now["endpointConfig"]["endpoint_type"] = "http"
                /\ Opt(now["endpointConfig"], "production_endpoints") =
                      IF Has(d, "productionUrl")
                      THEN Some([url |-> d["productionUrl"], config |-> "null"]) ELSE Nil
                /\ Opt(now["endpointConfig"], "sandbox_endpoints") =
                      IF Has(d, "sandboxUrl")
                      THEN Some([url |-> d["sandboxUrl"], config |-> "null"]) ELSE Nil
                /\ DOMAIN now["endpointConfig"] \subseteq
                      {"endpoint_type", "production_endpoints", "sandbox_endpoints"}
                /\ \A k \in DOMAIN d \ {"productionUrl", "sandboxUrl"} : now[k] = d[k]
                /\ DOMAIN now = (DOMAIN d \ {"productionUrl", "sandboxUrl"})
                                    \cup {"endpointConfig"}

\* a definition with both legacy fields and no endpointConfig was rewritten
\* with both sub-blocks and without the legacy fields
C22_Witness ==
    /\ PreProcessDone
    /\ Has(before[1], "productionUrl") /\ Has(before[1], "sandboxUrl")
    /\ ~Has(before[1], "endpointConfig")
    /\ "preProcessAPI" \in writers
    /\ yaml[1]["endpointConfig"]["sandbox_endpoints"]["url"] = "http://sand"
    /\ ~Has(yaml[1], "productionUrl")

\* a definition with no endpointConfig and no legacy field was rewritten with
\* an endpointConfig of the endpoint type alone
C22_WitnessBare ==
    /\ PreProcessDone
    /\ DOMAIN before[1] \cap {"endpointConfig", "productionUrl", "sandboxUrl"} = {}
    /\ "preProcessAPI" \in writers
    /\ yaml[1]["endpointConfig"] = [endpoint_type |-> "http"]

-----------------------------------------------------------------------------
(* SpecDelete: DeleteApplication for every status and every count of the   *)
(* application search.                                                     *)

\* the application-list endpoint with the slash AppendSlashToString adds
AppListEndpoint == "/applications/"

\* the statuses of the search response; 0 is a response without a status
SearchStatuses == StatusCodes \cup {0}

\* getAppId for the status of the search response and the count of its list
getAppId(code, count) ==
    IF code \in {200, 201}
    THEN IF count # 0 THEN [id |-> EntityId(1), err |-> ""]
         ELSE [id |-> "", err |-> ""]
    ELSE IF code = 401 THEN [id |-> "", err |-> "Authorization failed"]
    ELSE [id |-> "", err |-> "Request didn't respond 200 OK"]

\* the URL DeleteApplication sends the DELETE to
deleteURL(id) == AppListEndpoint \o id

InitDelete ==
    /\ kind = "app"
    /\ pc = "getAppId"
    /\ result = ""
    /\ info = NoDef /\ dirty = FALSE /\ verdict = 0
    /\ env = NoEnv /\ api = << >> /\ before = << >>
    /\ NoRun

\* appId, err := getAppId(accessToken, environment, deleteAppName); an error
\* ends the process in HandleErrorAndExit
GetAppId ==
    /\ pc = "getAppId"
    /\ queries' = queries + 1
    /\ query' = {"query"}
    /\ \E code \in SearchStatuses, count \in 0..MaxMatches :
          LET r == getAppId(code, count)
          IN /\ status' = code
             /\ matches' = IF code \in {200, 201} THEN count ELSE -1
             /\ appId' = r.id
             /\ IF r.err # "" THEN pc' = "exited" /\ result' = r.err
                ELSE pc' = "delete" /\ result' = result
    /\ UNCHANGED <<kind, info, dirty, verdict, env, api, before, skipCleanup, isDir,
                   tmpDir, ws, zip, wsDeferred, zipDeferred, yaml, json, certFile,
                   yamlAtInject, writers, mergeStep, fsIn, pathOut, update, overwrite,
                   uploads, flags, request, matched, endpoint, touched>>

\* resp, err := utils.InvokeDELETERequest(url, headers) and the return
InvokeDelete ==
    /\ pc = "delete"
    /\ endpoint' = [method |-> "DELETE", path |-> deleteURL(appId), payload |-> ""]
    /\ \E err \in {"", "transport error"} :
          /\ result' = IF err = "" THEN "response" ELSE err
          /\ pc' = "done"
    /\ UNCHANGED <<kind, info, dirty, verdict, env, api, before, skipCleanup, isDir,
                   tmpDir, ws, zip, wsDeferred, zipDeferred, yaml, json, certFile,
                   yamlAtInject, writers, mergeStep, fsIn, pathOut, update, overwrite,
                   queries, uploads, flags, matches, request, status, query, matched,
                   touched, appId>>

NextDelete == GetAppId \/ InvokeDelete

SpecDelete == InitDelete /\ [][NextDelete]_vars

\* C29: DeleteApplication issues a DELETE only for an application the lookup
\* found: when getAppId finds none (count 0, empty id, no error) no DELETE is
\* sent to the application-list endpoint.
C29_DeleteOnlyFound ==
    endpoint # << >> =>
        /\ matches >= 1 /\ appId # ""
        /\ endpoint.path # AppListEndpoint

====
